---- MODULE Spec2Model ----
(***************************************************************************)
(* The reservation core of NAUTIX (backend/app): the holds service, the    *)
(* create_booking / get_ticket / scan_ticket endpoints and the Stripe      *)
(* webhook, run by concurrent request workers over one shared database.    *)
(*                                                                         *)
(* A worker executes one handler at a time.  Every step of a handler is    *)
(* one database statement (a SELECT, or a db.commit() that flushes the     *)
(* session's pending rows and commits them) together with the local        *)
(* computation that follows it; steps of different workers interleave      *)
(* freely.  Rows a session has added but not committed live in the         *)
(* worker's locals (loc) and are invisible to the other workers.           *)
(*                                                                         *)
(* The endpoints are modelled from their validated pydantic payloads on;   *)
(* the webhook reads its body itself (request.json()).  Minutes are the    *)
(* unit of time.                                                           *)
(***************************************************************************)
EXTENDS Integers, Sequences, FiniteSets, TLC

VARIABLES
    holds,           \* table holds: id -> row
    bookings,        \* table bookings: id -> row
    tickets,         \* table tickets: id -> row
    payment_events,  \* table payment_events: the rows, in commit order
    next_hold,       \* the next fresh Hold.id (uuid4)
    known_holds,     \* ids of the holds create_hold has returned to a caller
    now,             \* datetime.utcnow(), in minutes
    ticks,           \* how often the clock has advanced
    calls,           \* how many requests have been made
    backend,         \* the dialect of settings.database_url
    pc,              \* each worker's position in its handler
    loc,             \* each worker's locals and uncommitted session state
    res              \* each worker's response, while pc = "done"

vars == <<holds, bookings, tickets, payment_events, next_hold, known_holds,
          now, ticks, calls, backend, pc, loc, res>>

store == <<holds, bookings, tickets, payment_events>>

----------------------------------------------------------------------------
(* Bounds of the model *)

NWorkers == 2
MaxHolds == 2
MaxPax == 2
MaxTicks == 1
MaxCalls == 3
Capacity == 2

Workers == 1..NWorkers

----------------------------------------------------------------------------
(* Program constants and value sets *)

DEFAULT_HOLD_MINUTES == 10

QR_EXPIRES_MINUTES == 60 * 24

BookingStatus == {"pending", "confirmed", "cancelled", "refunded"}

Backends == {"postgresql", "sqlite"}

\* The one sailing of the model; "s0" is an id no schedule row has.
schedules == [s \in {"s1"} |-> [capacity |-> Capacity]]

ScheduleIds == {"s1", "s0"}

\* Passenger names as a client sends them.
RawNames == {"ann ", "bob"}

\* str.strip().title() on the names of the model.
StripTitle(name) ==
    CASE name \in {"ann ", "Ann"} -> "Ann"
      [] name \in {"bob", "Bob"} -> "Bob"
      [] OTHER -> name

\* The passenger lists of the model's requests: the names are interchangeable,
\* so the first passenger is always the same one.
PassengerLists ==
    {p \in UNION {[1..n -> RawNames] : n \in 1..MaxPax} : p[1] = "ann "}

\* The Booking._generate_booking_reference() values of the model.
Refs == {"NTX-AA000AA", "NTX-AA000AB"}

SuccessTypes == {"payment_intent.succeeded", "checkout.session.completed"}

EventTypes == {"payment_intent.succeeded", "charge.refunded"}

EventIds == {"evt_1"}

None == "None"

----------------------------------------------------------------------------
(* Ticket credentials (services/qr.py) *)

NoPayload == [booking_id |-> 0, passenger |-> None, iat |-> 0, exp |-> 0]

\* A string that is no JWT: not three dot-separated segments.
Malformed ==
    [segments |-> 1, payload |-> NoPayload,
     sig |-> [key |-> None, over |-> NoPayload, k |-> 0]]

\* A signature without a nonce (deterministic ECDSA): equal payloads give
\* equal tokens.
sign_qr_token_Deterministic(payload, t, k) ==
    LET to_encode == [booking_id |-> payload.booking_id,
                      passenger  |-> payload.passenger,
                      iat        |-> t,
                      exp        |-> t + QR_EXPIRES_MINUTES]
    IN  [segments |-> 3, payload |-> to_encode,
         sig |-> [key |-> "private", over |-> to_encode, k |-> 0]]

\* jwt.encode(payload + iat + exp, private_key, ES256).  The ES256 signature
\* binds the payload to the private key; k is the signature's random nonce.
sign_qr_token(payload, t, k) ==
    LET to_encode == [booking_id |-> payload.booking_id,
                      passenger  |-> payload.passenger,
                      iat        |-> t,
                      exp        |-> t + QR_EXPIRES_MINUTES]
    IN  [segments |-> 3, payload |-> to_encode,
         sig |-> [key |-> "private", over |-> to_encode, k |-> k]]

\* A decode that does not test exp.
verify_qr_token_NoExpiry(token, t) ==
    IF token.segments # 3
    THEN [ok |-> FALSE, error |-> "Not enough segments", data |-> NoPayload]
    ELSE IF token.sig.key # "private" \/ token.sig.over # token.payload
    THEN [ok |-> FALSE, error |-> "Signature verification failed.",
          data |-> NoPayload]
    ELSE [ok |-> TRUE, error |-> None, data |-> token.payload]

\* A decode that does not test the signature.
verify_qr_token_Unverified(token, t) ==
    IF token.segments # 3
    THEN [ok |-> FALSE, error |-> "Not enough segments", data |-> NoPayload]
    ELSE IF token.payload.exp < t
    THEN [ok |-> FALSE, error |-> "Signature has expired.", data |-> NoPayload]
    ELSE [ok |-> TRUE, error |-> None, data |-> token.payload]

\* jwt.decode(token, public_key, ES256) at time t: the claims, or the error
\* it raises.  The structure is checked first, then the signature, then exp.
verify_qr_token(token, t) ==
    IF token.segments # 3
    THEN [ok |-> FALSE, error |-> "Not enough segments", data |-> NoPayload]
    ELSE IF token.sig.key # "private" \/ token.sig.over # token.payload
    THEN [ok |-> FALSE, error |-> "Signature verification failed.",
          data |-> NoPayload]
    ELSE IF token.payload.exp < t
    THEN [ok |-> FALSE, error |-> "Signature has expired.", data |-> NoPayload]
    ELSE [ok |-> TRUE, error |-> None, data |-> token.payload]

\* A token whose payload was altered after signing.
Tampered(token) ==
    [token EXCEPT !.payload.passenger = "Eve"]

IssuedTokens == {tickets[t].qr_token : t \in DOMAIN tickets}

\* A token signed with the service's key at time 0 for a booking the tickets
\* table has no row of (booking ids start at 1).
OrphanToken == sign_qr_token([booking_id |-> 0, passenger |-> "Ann"], 0, 0)

\* What a gate can be shown: an issued token, an altered one, garbage, a
\* token whose ticket the store does not hold.
PresentableTokens ==
    IssuedTokens \cup {Tampered(tk) : tk \in IssuedTokens}
                 \cup {Malformed, OrphanToken}

----------------------------------------------------------------------------
(* Worker locals and responses *)

NoTicket == <<0, 0>>

\* A DateTime column that is NULL.
NoTime == 0 - 1

\* A webhook body without an "id" key.
NoEvent == [id |-> None, type |-> None, booking_id |-> 0]

IdleLoc ==
    [op |-> "none", sid |-> None, names |-> <<>>, hold |-> 0, now |-> 0,
     sel |-> {}, ticket |-> NoTicket, token |-> Malformed,
     event |-> NoEvent, prior |-> 0]

\* A response: the HTTP status (0 for a service function called directly),
\* the boolean it carries (consume_hold's return value, ScanResponse.valid),
\* the number it carries (the booking id, the count of released holds), the
\* reason or detail, and the request it answers.
NoRes ==
    [op |-> "none", status |-> 0, ok |-> FALSE, value |-> 0, reason |-> None,
     hold |-> 0, ticket |-> NoTicket, token |-> Malformed, event |-> NoEvent,
     prior |-> 0]

\* The handler of worker w ends with response r; its session closes.
Finish(w, r) ==
    /\ pc' = [pc EXCEPT ![w] = "done"]
    /\ loc' = [loc EXCEPT ![w] = IdleLoc]
    /\ res' = [res EXCEPT ![w] = r]

\* Worker w is free and takes a request.
Call(w) ==
    /\ pc[w] = "idle"
    /\ calls < MaxCalls
    /\ calls' = calls + 1

\* The handler of worker w goes on at position p with locals l.
Goto(w, p, l) ==
    /\ pc' = [pc EXCEPT ![w] = p]
    /\ loc' = [loc EXCEPT ![w] = l]
    /\ UNCHANGED res

----------------------------------------------------------------------------
(* Initial state: an empty store, the clock at 0, every worker idle.  The  *)
(* database is PostgreSQL or SQLite, as database_url says.                 *)

Init ==
    /\ holds = <<>>
    /\ bookings = <<>>
    /\ tickets = <<>>
    /\ payment_events = <<>>
    /\ next_hold = 1
    /\ known_holds = {}
    /\ now = 0
    /\ ticks = 0
    /\ calls = 0
    /\ backend \in Backends
    /\ pc = [w \in Workers |-> "idle"]
    /\ loc = [w \in Workers |-> IdleLoc]
    /\ res = [w \in Workers |-> NoRes]

----------------------------------------------------------------------------
(* services/holds.py *)

\* A create_hold that ignores its minutes argument.
create_hold_NoTtl(schedule_id, pax_count, minutes) ==
    /\ next_hold <= MaxHolds
    /\ holds' = holds @@ (next_hold :>
                   [schedule_id |-> schedule_id, pax_count |-> pax_count,
                    expires_at |-> now, consumed |-> FALSE])
    /\ next_hold' = next_hold + 1

\* INSERT of a Hold row with a fresh id, committed at once; the new id is
\* next_hold.
create_hold(schedule_id, pax_count, minutes) ==
    /\ next_hold <= MaxHolds
    /\ holds' = holds @@ (next_hold :>
                   [schedule_id |-> schedule_id, pax_count |-> pax_count,
                    expires_at |-> now + minutes, consumed |-> FALSE])
    /\ next_hold' = next_hold + 1

\* A caller (a booking workflow that holds seats before it books) creates a
\* hold for one seat and is handed the Hold.
create_hold_call(w) ==
    /\ Call(w)
    /\ \E minutes \in {0, DEFAULT_HOLD_MINUTES} : create_hold("s1", 1, minutes)
    /\ known_holds' = known_holds \cup {next_hold}
    /\ Finish(w, [NoRes EXCEPT !.op = "create_hold", !.hold = next_hold])
    /\ UNCHANGED <<bookings, tickets, payment_events, now, ticks, backend>>

\* A consume_hold that locks the whole holds table before its query.
HoldLockedBy_TableLock(w, h) ==
    /\ backend = "postgresql"
    /\ pc[w] \in {"consume_select", "consume_commit"}

\* SELECT ... FOR UPDATE takes the row's lock until the session commits.  The
\* SQLite dialect emits no FOR UPDATE, so there the row is never locked.
HoldLockedBy(w, h) ==
    /\ backend = "postgresql"
    /\ pc[w] = "consume_commit"
    /\ loc[w].hold = h

HoldLocked(w, h) == \E o \in Workers \ {w} : HoldLockedBy(o, h)

\* A filter without the test of the consumed flag.
ConsumeFilter_IgnoresConsumed(h, t) ==
    /\ h \in DOMAIN holds
    /\ holds[h].expires_at > t

\* A filter that still admits the hold in the minute it expires.
ConsumeFilter_AtExpiry(h, t) ==
    /\ h \in DOMAIN holds
    /\ holds[h].consumed = FALSE
    /\ holds[h].expires_at >= t

\* A filter whose comparison of the expiry is reversed.
ConsumeFilter_Reversed(h, t) ==
    /\ h \in DOMAIN holds
    /\ holds[h].consumed = FALSE
    /\ holds[h].expires_at < t

\* The filter of consume_hold's query, with the utcnow() it was built with.
ConsumeFilter(h, t) ==
    /\ h \in DOMAIN holds
    /\ holds[h].consumed = FALSE
    /\ holds[h].expires_at > t

\* A create_booking that goes on to build the booking whatever consume_hold
\* returned.
ConsumeReturn_Proceeds(w, b) ==
    IF loc[w].op = "consume_hold"
    THEN Finish(w, [NoRes EXCEPT !.op = "consume_hold", !.ok = b,
                                 !.hold = loc[w].hold])
    ELSE Goto(w, "booking_flush", loc[w])

\* consume_hold returns b to its caller: to the client of a direct call, or
\* to create_booking, which goes on to build the booking or raises 409.
ConsumeReturn(w, b) ==
    IF loc[w].op = "consume_hold"
    THEN Finish(w, [NoRes EXCEPT !.op = "consume_hold", !.ok = b,
                                 !.hold = loc[w].hold])
    ELSE IF b
    THEN Goto(w, "booking_flush", loc[w])
    ELSE Finish(w, [NoRes EXCEPT !.op = "create_booking", !.status = 409,
                        !.reason = "Unable to secure seats (hold failed)",
                        !.hold = loc[w].hold, !.prior = loc[w].prior])

\* An exception leaves the handler: the session is closed, what it had not
\* committed is rolled back, the client gets 500.
Raise(w, reason) ==
    Finish(w, [NoRes EXCEPT !.op = loc[w].op, !.status = 500,
                            !.reason = reason, !.hold = loc[w].hold,
                            !.event = loc[w].event, !.prior = loc[w].prior])

\* A caller that was handed a hold consumes it.
consume_hold_call(w) ==
    /\ Call(w)
    /\ \E h \in known_holds :
          Goto(w, "consume_hold", [IdleLoc EXCEPT !.op = "consume_hold",
                                                  !.hold = h])
    /\ UNCHANGED <<store, next_hold, known_holds, now, ticks, backend>>

\* consume_hold builds its query: datetime.utcnow() is read here, before the
\* statement runs.
consume_hold_now(w) ==
    /\ pc[w] = "consume_hold"
    /\ Goto(w, "consume_select", [loc[w] EXCEPT !.now = now])
    /\ UNCHANGED <<store, next_hold, known_holds, now, ticks, calls, backend>>

\* A consume_hold that deletes the hold it cannot consume.
consume_hold_select_Deletes(w) ==
    /\ pc[w] = "consume_select"
    /\ ~HoldLocked(w, loc[w].hold)
    /\ IF ConsumeFilter(loc[w].hold, loc[w].now)
       THEN Goto(w, "consume_commit", loc[w]) /\ UNCHANGED holds
       ELSE /\ ConsumeReturn(w, FALSE)
            /\ holds' = [h \in DOMAIN holds \ {loc[w].hold} |-> holds[h]]
    /\ UNCHANGED <<bookings, tickets, payment_events, next_hold, known_holds,
                   now, ticks, calls, backend>>

\* The query runs: it waits for the row's lock, then tests the filter on the
\* committed row.  No row: return False.
consume_hold_select(w) ==
    /\ pc[w] = "consume_select"
    /\ ~HoldLocked(w, loc[w].hold)
    /\ IF ConsumeFilter(loc[w].hold, loc[w].now)
       THEN Goto(w, "consume_commit", loc[w])
       ELSE ConsumeReturn(w, FALSE)
    /\ UNCHANGED <<store, next_hold, known_holds, now, ticks, calls, backend>>

\* A consume_hold that writes hold.consumed = not hold.consumed.
consume_hold_commit_Toggles(w) ==
    /\ pc[w] = "consume_commit"
    /\ IF loc[w].hold \in DOMAIN holds
       THEN /\ holds' = [holds EXCEPT ![loc[w].hold].consumed =
                                          ~holds[loc[w].hold].consumed]
            /\ ConsumeReturn(w, TRUE)
       ELSE /\ Raise(w, "StaleDataError")
            /\ UNCHANGED holds
    /\ UNCHANGED <<bookings, tickets, payment_events, next_hold, known_holds,
                   now, ticks, calls, backend>>

\* hold.consumed = True; db.commit(): UPDATE holds SET consumed WHERE id,
\* which raises StaleDataError when the row is gone.  Return True.
consume_hold_commit(w) ==
    /\ pc[w] = "consume_commit"
    /\ IF loc[w].hold \in DOMAIN holds
       THEN /\ holds' = [holds EXCEPT ![loc[w].hold].consumed = TRUE]
            /\ ConsumeReturn(w, TRUE)
       ELSE /\ Raise(w, "StaleDataError")
            /\ UNCHANGED holds
    /\ UNCHANGED <<bookings, tickets, payment_events, next_hold, known_holds,
                   now, ticks, calls, backend>>

\* release_expired_holds reads the clock.
release_expired_holds_call(w) ==
    /\ Call(w)
    /\ Goto(w, "release_select",
            [IdleLoc EXCEPT !.op = "release_expired_holds", !.now = now])
    /\ UNCHANGED <<store, next_hold, known_holds, now, ticks, backend>>

\* A filter without the test of the consumed flag.
ExpiredFilter_IgnoresConsumed(h, t) == holds[h].expires_at <= t

\* The filter of release_expired_holds' query.
ExpiredFilter(h, t) ==
    /\ holds[h].expires_at <= t
    /\ holds[h].consumed = FALSE

\* expired = query(...).all(): a plain SELECT, it waits for no lock.
release_expired_holds_select(w) ==
    /\ pc[w] = "release_select"
    /\ Goto(w, "release_commit",
            [loc[w] EXCEPT !.sel = {h \in DOMAIN holds : ExpiredFilter(h, loc[w].now)}])
    /\ UNCHANGED <<store, next_hold, known_holds, now, ticks, calls, backend>>

\* A DELETE of every unconsumed hold, not of the loaded rows.
ReleaseDeletes_Unconsumed(sel) == {h \in DOMAIN holds : ~holds[h].consumed}

\* A sweep whose deletes are never flushed.
ReleaseDeletes_Nothing(sel) == {}

\* The rows the DELETEs of the flush remove: each loaded hold, by its id.
ReleaseDeletes(sel) == sel \cap DOMAIN holds

\* db.delete(h) for each; db.commit(): DELETE FROM holds WHERE id, for each
\* loaded row; a DELETE waits for the row's lock.  Returns len(expired).
release_expired_holds_commit(w) ==
    /\ pc[w] = "release_commit"
    /\ \A h \in loc[w].sel : ~HoldLocked(w, h)
    /\ holds' = [h \in DOMAIN holds \ ReleaseDeletes(loc[w].sel) |-> holds[h]]
    /\ Finish(w, [NoRes EXCEPT !.op = "release_expired_holds",
                               !.value = Cardinality(loc[w].sel)])
    /\ UNCHANGED <<bookings, tickets, payment_events, next_hold, known_holds,
                   now, ticks, calls, backend>>

----------------------------------------------------------------------------
(* api/v1/endpoints.py *)

\* Schedule.available_capacity: capacity minus the passengers of the
\* schedule's confirmed bookings.
ConfirmedPax(sid) ==
    LET ids == {b \in DOMAIN bookings : /\ bookings[b].schedule_id = sid
                                        /\ bookings[b].status = "confirmed"}
        Sum[S \in SUBSET ids] ==
            IF S = {} THEN 0
            ELSE LET b == CHOOSE x \in S : TRUE
                 IN  bookings[b].pax_count + Sum[S \ {b}]
    IN  Sum[ids]

available_capacity(sid) == schedules[sid].capacity - ConfirmedPax(sid)

\* A create_booking that creates the hold before it looks the schedule up.
create_booking_HoldFirst(w) ==
    /\ Call(w)
    /\ \E sid \in ScheduleIds, raw \in PassengerLists :
          LET names == [i \in DOMAIN raw |-> StripTitle(raw[i])]
          IN  /\ create_hold(sid, Len(names), DEFAULT_HOLD_MINUTES)
              /\ IF sid \notin DOMAIN schedules
                 THEN Finish(w, [NoRes EXCEPT !.op = "create_booking",
                                     !.status = 404,
                                     !.reason = "Schedule not found"])
                 ELSE Goto(w, "consume_hold",
                           [IdleLoc EXCEPT !.op = "create_booking",
                               !.sid = sid, !.names = names,
                               !.hold = next_hold,
                               !.prior = Cardinality(DOMAIN bookings)])
    /\ UNCHANGED <<bookings, tickets, payment_events, known_holds, now, ticks,
                   backend>>

\* POST /bookings: the schedule is looked up (404 when absent), then
\* create_hold inserts and commits the request's hold.  The payload's
\* passenger names come validated (PassengerInfo.validate_name).
create_booking(w) ==
    /\ Call(w)
    /\ \E sid \in ScheduleIds, raw \in PassengerLists :
          LET names == [i \in DOMAIN raw |-> StripTitle(raw[i])]
          IN  IF sid \notin DOMAIN schedules
              THEN /\ Finish(w, [NoRes EXCEPT !.op = "create_booking",
                                     !.status = 404,
                                     !.reason = "Schedule not found"])
                   /\ UNCHANGED <<holds, next_hold>>
              ELSE /\ create_hold(sid, Len(names), DEFAULT_HOLD_MINUTES)
                   /\ Goto(w, "consume_hold",
                           [IdleLoc EXCEPT !.op = "create_booking",
                               !.sid = sid, !.names = names,
                               !.hold = next_hold,
                               !.prior = Cardinality(DOMAIN bookings)])
    /\ UNCHANGED <<bookings, tickets, payment_events, known_holds, now, ticks,
                   backend>>

\* Booking.id is a fresh uuid4: the model takes the id of the request's hold,
\* which no other request has.
BookingId(w) == loc[w].hold

\* A bookings table without the unique index on booking_reference.
BookingRefs_Unchecked == {}

\* The references the unique index on bookings.booking_reference holds.
BookingRefs == {bookings[b].booking_reference : b \in DOMAIN bookings}

\* A Booking built without its status, which the column default fills in.
NewBooking_Pending(w, ref) ==
    [schedule_id |-> loc[w].sid, status |-> "pending",
     pax_count |-> Len(loc[w].names), booking_reference |-> ref]

\* The Booking row create_booking inserts, with the reference
\* Booking.__init__ drew for it.
NewBooking(w, ref) ==
    [schedule_id |-> loc[w].sid, status |-> "confirmed",
     pax_count |-> Len(loc[w].names), booking_reference |-> ref]

\* A ticket loop that stops after the first passenger.
NewTickets_FirstOnly(w) ==
    [t \in {<<BookingId(w), 1>>} |->
        [booking_id |-> BookingId(w),
         passenger_name |-> StripTitle(loc[w].names[1]),
         used |-> FALSE, used_at |-> NoTime,
         qr_token |-> sign_qr_token([booking_id |-> BookingId(w),
                                     passenger |-> loc[w].names[1]],
                                    now, 1)]]

\* The Ticket rows create_booking inserts, one per passenger, each with the
\* token signed for (booking_id, passenger); Ticket.validate_passenger_name
\* normalises the name once more.
NewTickets(w) ==
    [t \in {<<BookingId(w), i>> : i \in DOMAIN loc[w].names} |->
        [booking_id |-> BookingId(w),
         passenger_name |-> StripTitle(loc[w].names[t[2]]),
         used |-> FALSE, used_at |-> NoTime,
         qr_token |-> sign_qr_token([booking_id |-> BookingId(w),
                                     passenger |-> loc[w].names[t[2]]],
                                    now, t[2])]]

\* The transaction of create_booking: db.add(booking), db.flush(), the
\* ticket loop, db.commit().  The rows the flush inserts are visible to no
\* other session before the commit, so the transaction is one step: the
\* booking and its tickets appear together, or the unique index on
\* booking_reference raises IntegrityError and nothing is inserted.  (The
\* insert goes through where bookings.user_id admits NULL; create_booking_fail
\* is the flush that does not.)
create_booking_commit(w) ==
    /\ pc[w] = "booking_flush"
    /\ \E ref \in Refs :
          IF ref \in BookingRefs
          THEN /\ Raise(w, "IntegrityError")
               /\ UNCHANGED <<bookings, tickets>>
          ELSE /\ bookings' = bookings @@ (BookingId(w) :> NewBooking(w, ref))
               /\ tickets' = tickets @@ NewTickets(w)
               /\ Finish(w, [NoRes EXCEPT !.op = "create_booking",
                                 !.status = 201, !.value = BookingId(w),
                                 !.hold = loc[w].hold, !.prior = loc[w].prior])
    /\ UNCHANGED <<holds, payment_events, next_hold, known_holds, now, ticks,
                   calls, backend>>

\* A step of create_booking after the hold was acquired fails or the worker
\* dies: nothing uncommitted survives.  The flush of the booking fails on a
\* bookings table created from these entities (user_id is NOT NULL and the
\* handler sets none); the key file of sign_qr_token may be unreadable; the
\* database connection may drop.
create_booking_fail(w) ==
    /\ loc[w].op = "create_booking"
    /\ pc[w] \in {"consume_hold", "consume_select", "consume_commit",
                  "booking_flush"}
    /\ Raise(w, "Internal server error")
    /\ UNCHANGED <<store, next_hold, known_holds, now, ticks, calls, backend>>

\* GET /tickets/{ticket_id}
get_ticket(w) ==
    /\ Call(w)
    /\ \E ticket_id \in DOMAIN tickets \cup {NoTicket} :
          IF ticket_id \notin DOMAIN tickets
          THEN Finish(w, [NoRes EXCEPT !.op = "get_ticket", !.status = 404,
                              !.reason = "Ticket not found",
                              !.ticket = ticket_id])
          ELSE Finish(w, [NoRes EXCEPT !.op = "get_ticket", !.status = 200,
                              !.ticket = ticket_id,
                              !.value = tickets[ticket_id].booking_id,
                              !.token = tickets[ticket_id].qr_token])
    /\ UNCHANGED <<store, next_hold, known_holds, now, ticks, backend>>

\* A lookup without its filter.
TicketMatches_AnyTicket(data) == DOMAIN tickets

\* The rows of scan_ticket's lookup by (booking_id, passenger_name).
TicketMatches(data) ==
    {t \in DOMAIN tickets : /\ tickets[t].booking_id = data.booking_id
                            /\ tickets[t].passenger_name = data.passenger}

\* A decision that carries the identifiers only when it is valid.
ScanDecision_NoIds(valid, reason, t, token) ==
    [NoRes EXCEPT !.op = "scan_ticket", !.status = 200, !.ok = valid,
                  !.reason = reason,
                  !.ticket = IF valid THEN t ELSE NoTicket,
                  !.value = IF valid THEN tickets[t].booking_id ELSE 0,
                  !.token = token]

\* ScanResponse(valid, reason, ticket_id, booking_id) for the token scanned.
ScanDecision(valid, reason, t, token) ==
    [NoRes EXCEPT !.op = "scan_ticket", !.status = 200, !.ok = valid,
                  !.reason = reason, !.ticket = t,
                  !.value = IF t = NoTicket THEN 0 ELSE tickets[t].booking_id,
                  !.token = token]

\* POST /scan: the token is verified, the ticket looked up (.first() takes
\* any one of the matching rows: the query has no ORDER BY) and its loaded
\* used flag tested.
scan_ticket(w) ==
    /\ Call(w)
    /\ \E token \in PresentableTokens :
          LET v == verify_qr_token(token, now)
          IN  IF ~v.ok
              THEN Finish(w, ScanDecision(FALSE, v.error, NoTicket, token))
              ELSE IF TicketMatches(v.data) = {}
              THEN Finish(w, ScanDecision(FALSE, "Ticket not found for booking",
                                          NoTicket, token))
              ELSE \E t \in TicketMatches(v.data) :
                      IF tickets[t].used
                      THEN Finish(w, ScanDecision(FALSE, "Ticket already used",
                                                  t, token))
                      ELSE Goto(w, "scan_update",
                                [IdleLoc EXCEPT !.op = "scan_ticket",
                                                !.ticket = t, !.token = token])
    /\ UNCHANGED <<store, next_hold, known_holds, now, ticks, backend>>

\* An UPDATE whose WHERE clause named the booking instead of the ticket
\* would match the unused tickets of the whole booking.
ScanUpdateRows_ByBooking(t) ==
    {x \in DOMAIN tickets : x[1] = t[1] /\ tickets[x].used = FALSE}

\* An UPDATE whose WHERE clause kept only used = false.
ScanUpdateRows_AllUnused(t) ==
    {x \in DOMAIN tickets : tickets[x].used = FALSE}

\* The rows UPDATE tickets ... WHERE id = t AND used = false matches.
ScanUpdateRows(t) ==
    {x \in DOMAIN tickets : x = t /\ tickets[x].used = FALSE}

\* An UPDATE that sets the flag and not the time.
ScanUpdateSet_NoTime(row) == [row EXCEPT !.used = TRUE]

\* What the UPDATE writes to a row it matches.
ScanUpdateSet(row) == [row EXCEPT !.used = TRUE, !.used_at = now]

\* The conditional UPDATE and db.commit(); updated is the row count.
scan_ticket_update(w) ==
    /\ pc[w] = "scan_update"
    /\ LET t == loc[w].ticket
           rows == ScanUpdateRows(t)
           updated == Cardinality(rows)
       IN  /\ tickets' = [x \in DOMAIN tickets |->
                             IF x \in rows THEN ScanUpdateSet(tickets[x])
                             ELSE tickets[x]]
           /\ IF updated = 0
              THEN Finish(w, ScanDecision(FALSE, "Ticket already used", t,
                                          loc[w].token))
              ELSE Finish(w, ScanDecision(TRUE, None, t, loc[w].token))
    /\ UNCHANGED <<holds, bookings, payment_events, next_hold, known_holds,
                   now, ticks, calls, backend>>

----------------------------------------------------------------------------
(* api/v1/payments.py *)

\* The webhook bodies of the model: an event with an id, a type and, in its
\* metadata, a booking id (0: none; 1: the first booking, once it exists), or
\* a body without an id.
Events ==
    {[id |-> e, type |-> ty, booking_id |-> b] :
        e \in EventIds, ty \in EventTypes, b \in 0..1} \cup {NoEvent}

RecordedIds == {payment_events[i].id : i \in DOMAIN payment_events}

\* db.query(PaymentEvent).get(event_id)
AlreadyProcessed(event_id) == event_id \in RecordedIds

\* What request.json() hands the handler, which does not await it: the
\* coroutine object of a starlette Request, or the parsed body where the
\* request object's json() is an ordinary method.
JsonResults == {"coroutine", "dict"}

\* POST /payments/stripe/webhook: the membership test on a coroutine raises
\* TypeError, outside the try block; a body without an id is refused; an
\* event already recorded is answered at once; otherwise the record is added
\* to the session.  Both successful returns answer {"status": "ok"}: the
\* response's reason tells the two return statements apart.
stripe_webhook(w) ==
    /\ Call(w)
    /\ \E event \in Events, json \in JsonResults :
          IF json = "coroutine"
          THEN Finish(w, [NoRes EXCEPT !.op = "stripe_webhook", !.status = 500,
                              !.reason = "TypeError", !.event = event])
          ELSE IF event.id = None
          THEN Finish(w, [NoRes EXCEPT !.op = "stripe_webhook", !.status = 400,
                              !.reason = "Invalid webhook payload",
                              !.event = event])
          ELSE IF AlreadyProcessed(event.id)
          THEN Finish(w, [NoRes EXCEPT !.op = "stripe_webhook", !.status = 200,
                              !.reason = "already processed", !.event = event])
          ELSE Goto(w, IF event.booking_id # 0 THEN "webhook_booking"
                       ELSE "webhook_commit",
                    [IdleLoc EXCEPT !.op = "stripe_webhook", !.event = event])
    /\ UNCHANGED <<store, next_hold, known_holds, now, ticks, backend>>

\* The test that guards booking.status = "confirmed".
ConfirmsBooking(event) ==
    /\ event.booking_id \in DOMAIN bookings
    /\ event.type \in SuccessTypes

\* booking = db.query(Booking).get(booking_id); the status is set on the
\* loaded object when the booking exists and the type is a success signal.
stripe_webhook_booking(w) ==
    /\ pc[w] = "webhook_booking"
    /\ Goto(w, "webhook_commit",
            [loc[w] EXCEPT !.sel = IF ConfirmsBooking(loc[w].event)
                                   THEN {loc[w].event.booking_id} ELSE {}])
    /\ UNCHANGED <<store, next_hold, known_holds, now, ticks, calls, backend>>

\* What the flush of the commit trips over: the primary key of
\* payment_events, or (where foreign keys are enforced: SQLite does not by
\* default) the reference to bookings.id.
WebhookIntegrityError(event) ==
    IF event.id \in RecordedIds
    THEN "IntegrityError: payment_events.id"
    ELSE IF /\ backend = "postgresql"
            /\ event.booking_id # 0
            /\ event.booking_id \notin DOMAIN bookings
    THEN "IntegrityError: payment_events.booking_id"
    ELSE None

\* A webhook that also releases the hold of the booking it confirms.
stripe_webhook_commit_DropsHold(w) ==
    /\ pc[w] = "webhook_commit"
    /\ LET event == loc[w].event
       IN  IF WebhookIntegrityError(event) # None
           THEN /\ Raise(w, WebhookIntegrityError(event))
                /\ UNCHANGED <<payment_events, bookings, holds>>
           ELSE /\ payment_events' = Append(payment_events, event)
                /\ bookings' = [b \in DOMAIN bookings |->
                                  IF b \in loc[w].sel
                                  THEN [bookings[b] EXCEPT !.status = "confirmed"]
                                  ELSE bookings[b]]
                /\ holds' = [h \in DOMAIN holds \ loc[w].sel |-> holds[h]]
                /\ Finish(w, [NoRes EXCEPT !.op = "stripe_webhook",
                                  !.status = 200, !.reason = "recorded",
                                  !.event = event])
    /\ UNCHANGED <<tickets, next_hold, known_holds, now, ticks, calls, backend>>

\* db.commit(): INSERT of the PaymentEvent and UPDATE of the booking, in one
\* transaction.
stripe_webhook_commit(w) ==
    /\ pc[w] = "webhook_commit"
    /\ LET event == loc[w].event
       IN  IF WebhookIntegrityError(event) # None
           THEN /\ Raise(w, WebhookIntegrityError(event))
                /\ UNCHANGED <<payment_events, bookings>>
           ELSE /\ payment_events' = Append(payment_events, event)
                /\ bookings' = [b \in DOMAIN bookings |->
                                  IF b \in loc[w].sel
                                  THEN [bookings[b] EXCEPT !.status = "confirmed"]
                                  ELSE bookings[b]]
                /\ Finish(w, [NoRes EXCEPT !.op = "stripe_webhook",
                                  !.status = 200, !.reason = "recorded",
                                  !.event = event])
    /\ UNCHANGED <<holds, tickets, next_hold, known_holds, now, ticks, calls,
                   backend>>

----------------------------------------------------------------------------
(* The environment *)

\* The client has its response; the worker is free for the next request.
Return(w) ==
    /\ pc[w] = "done"
    /\ pc' = [pc EXCEPT ![w] = "idle"]
    /\ res' = [res EXCEPT ![w] = NoRes]
    /\ UNCHANGED <<store, next_hold, known_holds, now, ticks, calls, backend,
                   loc>>

\* Time passes: the lifetime of a hold, or more than that of a QR token.
Tick ==
    /\ ticks < MaxTicks
    /\ \E d \in {DEFAULT_HOLD_MINUTES, QR_EXPIRES_MINUTES + 1} : now' = now + d
    /\ ticks' = ticks + 1
    /\ UNCHANGED <<store, next_hold, known_holds, calls, backend, pc, loc, res>>

Next ==
    \/ Tick
    \/ \E w \in Workers :
          \/ create_hold_call(w)
          \/ consume_hold_call(w)
          \/ consume_hold_now(w)
          \/ consume_hold_select(w)
          \/ consume_hold_commit(w)
          \/ release_expired_holds_call(w)
          \/ release_expired_holds_select(w)
          \/ release_expired_holds_commit(w)
          \/ create_booking(w)
          \/ create_booking_commit(w)
          \/ create_booking_fail(w)
          \/ get_ticket(w)
          \/ scan_ticket(w)
          \/ scan_ticket_update(w)
          \/ stripe_webhook(w)
          \/ stripe_webhook_booking(w)
          \/ stripe_webhook_commit(w)
          \/ Return(w)

Spec == Init /\ [][Next]_vars

----------------------------------------------------------------------------
(* The database as create_booking did not leave it: bookings whose status  *)
(* was set by the operator's back office (cancellation, refund) or that    *)
(* still await payment.  One such booking, with its ticket and its hold,   *)
(* is in the store; the webhook and the gate run against it.               *)

InitStore ==
    /\ holds = (1 :> [schedule_id |-> "s1", pax_count |-> 1,
                      expires_at |-> DEFAULT_HOLD_MINUTES, consumed |-> TRUE])
    /\ \E st \in BookingStatus :
          bookings = (1 :> [schedule_id |-> "s1", status |-> st, pax_count |-> 1,
                            booking_reference |-> "NTX-AA000AA"])
    /\ tickets = (<<1, 1>> :>
                    [booking_id |-> 1, passenger_name |-> "Ann",
                     used |-> FALSE, used_at |-> NoTime,
                     qr_token |-> sign_qr_token([booking_id |-> 1,
                                                 passenger |-> "Ann"], 0, 1)])
    /\ payment_events = <<>>
    /\ next_hold = 2
    /\ known_holds = {}
    /\ now = 0
    /\ ticks = 0
    /\ calls = 0
    /\ backend \in Backends
    /\ pc = [w \in Workers |-> "idle"]
    /\ loc = [w \in Workers |-> IdleLoc]
    /\ res = [w \in Workers |-> NoRes]

NextStore ==
    \/ Tick
    \/ \E w \in Workers :
          \/ get_ticket(w)
          \/ scan_ticket(w)
          \/ scan_ticket_update(w)
          \/ stripe_webhook(w)
          \/ stripe_webhook_booking(w)
          \/ stripe_webhook_commit(w)
          \/ Return(w)

SpecStore == InitStore /\ [][NextStore]_vars

----------------------------------------------------------------------------
(* The sweep process.  holds.py defines release_expired_holds and nothing  *)
(* under src/ calls it; the specification's lifecycle of a hold has a      *)
(* sweep process reap the holds that expired unconsumed.  Here a free      *)
(* worker runs the sweep whenever it is due, besides the calls of          *)
(* create_hold and consume_hold the workers serve.                         *)

\* The sweep process starts a run of release_expired_holds, which reads the
\* clock.
sweeper(w) ==
    /\ pc[w] = "idle"
    /\ Goto(w, "release_select",
            [IdleLoc EXCEPT !.op = "release_expired_holds", !.now = now])
    /\ UNCHANGED <<store, next_hold, known_holds, now, ticks, calls, backend>>

NextSweep ==
    \/ Tick
    \/ \E w \in Workers :
          \/ sweeper(w)
          \/ release_expired_holds_select(w)
          \/ release_expired_holds_commit(w)
          \/ create_hold_call(w)
          \/ consume_hold_call(w)
          \/ consume_hold_now(w)
          \/ consume_hold_select(w)
          \/ consume_hold_commit(w)
          \/ Return(w)

\* The sweep process is started again and again; a statement that can run
\* runs, a transaction that can commit commits, a response is delivered.
FairSweep ==
    /\ WF_vars(\E w \in Workers : sweeper(w))
    /\ \A w \in Workers :
          /\ WF_vars(release_expired_holds_select(w))
          /\ WF_vars(release_expired_holds_commit(w))
          /\ WF_vars(consume_hold_now(w))
          /\ WF_vars(consume_hold_select(w))
          /\ WF_vars(consume_hold_commit(w))
          /\ WF_vars(Return(w))

SpecSweep == Init /\ [][NextSweep]_vars /\ FairSweep

----------------------------------------------------------------------------
(* The booking path under a database that runs every statement it can run: *)
(* create_booking with the hold service beside it.                         *)

NextBooking ==
    \/ Tick
    \/ \E w \in Workers :
          \/ create_booking(w)
          \/ consume_hold_now(w)
          \/ consume_hold_select(w)
          \/ consume_hold_commit(w)
          \/ create_booking_commit(w)
          \/ create_booking_fail(w)
          \/ create_hold_call(w)
          \/ consume_hold_call(w)
          \/ release_expired_holds_call(w)
          \/ release_expired_holds_select(w)
          \/ release_expired_holds_commit(w)
          \/ Return(w)

\* A statement that is not waiting for a lock runs; a transaction commits.
FairBooking ==
    \A w \in Workers :
        /\ WF_vars(consume_hold_now(w))
        /\ WF_vars(consume_hold_select(w))
        /\ WF_vars(consume_hold_commit(w))
        /\ WF_vars(create_booking_commit(w))

SpecBooking == Init /\ [][NextBooking]_vars /\ FairBooking

----------------------------------------------------------------------------
(* Properties *)

Answered(w, op) == pc[w] = "done" /\ res[w].op = op

\* C1: for every sailing, the passengers of its confirmed bookings never
\* exceed its capacity, whatever requests ran and however they interleaved.
C1_CapacityNeverExceeded ==
    \A sid \in DOMAIN schedules : ConfirmedPax(sid) <= schedules[sid].capacity

\* create_booking answered worker w 201 or 409 for a request of n passengers
\* that began when the store held no booking.
RacedForSeats(w, n) ==
    /\ Answered(w, "create_booking")
    /\ res[w].status \in {201, 409}
    /\ res[w].prior = 0
    /\ res[w].hold \in DOMAIN holds
    /\ holds[res[w].hold].pax_count = n

\* C2: of two create_booking requests for Capacity passengers each that both
\* began on the empty sailing (and no hold timed out), exactly one gets a
\* booking id and the other the 409 conflict.
C2_OneOfTwoRacingBookingsWins ==
    \A w1, w2 \in Workers :
        (/\ w1 # w2
         /\ ticks = 0
         /\ RacedForSeats(w1, Capacity)
         /\ RacedForSeats(w2, Capacity))
        => {res[w1].status, res[w2].status} = {201, 409}

\* C3: consume_hold returns True to at most one of the callers racing on the
\* same hold.
C3_OneConsumerWins ==
    \A w1, w2 \in Workers :
        (/\ w1 # w2
         /\ Answered(w1, "consume_hold")
         /\ Answered(w2, "consume_hold")
         /\ res[w1].hold = res[w2].hold)
        => ~(res[w1].ok /\ res[w2].ok)

\* C4: of the scans that present the same token, at most one is answered
\* valid=true.
C4_OneScanOfATokenIsValid ==
    \A w1, w2 \in Workers :
        (/\ w1 # w2
         /\ Answered(w1, "scan_ticket")
         /\ Answered(w2, "scan_ticket")
         /\ res[w1].token = res[w2].token)
        => ~(res[w1].ok /\ res[w2].ok)

\* C5: a create_booking that failed after its hold was acquired has left
\* nothing in the store: no consumed hold, no booking, no ticket of its own.
C5_FailedBookingLeavesNothing ==
    \A w \in Workers :
        (Answered(w, "create_booking") /\ res[w].status = 500)
        => /\ ~(res[w].hold \in DOMAIN holds /\ holds[res[w].hold].consumed)
           /\ res[w].hold \notin DOMAIN bookings
           /\ \A t \in DOMAIN tickets : tickets[t].booking_id # res[w].hold

\* C6: a hold that consume_hold answered True for is still in the store,
\* consumed, whatever release_expired_holds ran beside it.
C6_SweepSparesConsumedHold ==
    \A w \in Workers :
        (Answered(w, "consume_hold") /\ res[w].ok)
        => /\ res[w].hold \in DOMAIN holds
           /\ holds[res[w].hold].consumed

\* Worker w takes a webhook delivery of event id e in this step.
WebhookCall(w, e) ==
    /\ pc[w] = "idle"
    /\ \/ pc'[w] = "done" /\ res'[w].op = "stripe_webhook"
                          /\ res'[w].event.id = e
       \/ pc'[w] \notin {"idle", "done"} /\ loc'[w].op = "stripe_webhook"
                                         /\ loc'[w].event.id = e

RecordsOf(events, e) == {i \in DOMAIN events : events[i].id = e}

\* C7: a delivery of an event that is already recorded is answered success
\* in that same step and changes neither the payment events nor any booking;
\* no event id is ever recorded twice.
C7_DuplicateDeliveryIsNoOp ==
    [][\A w \in Workers, e \in EventIds :
          /\ Cardinality(RecordsOf(payment_events', e)) <= 1
          /\ (WebhookCall(w, e) /\ RecordsOf(payment_events, e) # {})
             => /\ pc'[w] = "done"
                /\ res'[w].status = 200
                /\ payment_events' = payment_events
                /\ bookings' = bookings]_vars

AllowedTransitions ==
    {<<"pending", "confirmed">>, <<"pending", "cancelled">>,
     <<"confirmed", "cancelled">>, <<"confirmed", "refunded">>}

C10_UsedFlagOnlySetByScan ==
    [][\A t \in DOMAIN tickets :
          /\ t \in DOMAIN tickets'
          /\ tickets'[t].used # tickets[t].used
             => /\ tickets[t].used = FALSE
                /\ \E w \in Workers : /\ pc[w] = "scan_update"
                                      /\ loc[w].ticket = t
                                      /\ pc'[w] = "done"
                                      /\ res'[w].ok]_vars

\* C10 witness: a scan was answered valid=true and its ticket is used, beside
\* a ticket of the same booking that is not.
C10_Witness ==
    \E w \in Workers, t \in DOMAIN tickets :
        /\ Answered(w, "scan_ticket")
        /\ res[w].ok
        /\ tickets[res[w].ticket].used
        /\ t[1] = res[w].ticket[1]
        /\ ~tickets[t].used

\* Worker w's consume_hold runs its query in this step.
ConsumeQueries(w) == pc[w] = "consume_select" /\ pc'[w] # "consume_select"

\* C11: a consume_hold call that runs after the hold was consumed returns
\* False and changes nothing; a call that finds the hold unconsumed and
\* unexpired goes on to consume it and returns True; a consumed flag is never
\* cleared, so every later call returns False as well.
C11_SecondConsumeFails ==
    [][/\ \A h \in DOMAIN holds \cap DOMAIN holds' :
             holds[h].consumed => holds'[h].consumed
       /\ \A w \in Workers :
             LET h == loc[w].hold
             IN  /\ (/\ ConsumeQueries(w)
                     /\ loc[w].op = "consume_hold"
                     /\ h \in DOMAIN holds
                     /\ holds[h].consumed)
                    => /\ pc'[w] = "done"
                       /\ res'[w].op = "consume_hold"
                       /\ res'[w].ok = FALSE
                       /\ holds' = holds
                 /\ (/\ ConsumeQueries(w)
                     /\ loc[w].op = "consume_hold"
                     /\ h \in DOMAIN holds
                     /\ ~holds[h].consumed
                     /\ holds[h].expires_at > loc[w].now)
                    => pc'[w] = "consume_commit"
                 /\ (/\ pc[w] = "consume_commit"
                     /\ pc'[w] # "consume_commit"
                     /\ loc[w].op = "consume_hold"
                     /\ h \in DOMAIN holds)
                    => /\ pc'[w] = "done"
                       /\ res'[w].ok = TRUE
                       /\ holds'[h].consumed]_vars

\* C11 witness: of two consume_hold calls on one unexpired hold, one was
\* answered True and the other False.
C11_Witness ==
    \E w1, w2 \in Workers :
        /\ Answered(w1, "consume_hold")
        /\ Answered(w2, "consume_hold")
        /\ res[w1].hold = res[w2].hold
        /\ res[w1].ok
        /\ ~res[w2].ok
        /\ res[w1].hold \in DOMAIN holds
        /\ holds[res[w1].hold].consumed
        /\ holds[res[w1].hold].expires_at > now

\* C12: a consume_hold that reads the clock at or after the hold's expires_at
\* returns False and leaves the hold as it is.  The clock never runs back and
\* expires_at never changes, so a hold that was expired when it was created
\* (ttl = 0) is expired for every later call: a hold is only ever consumed
\* by a call that read the clock before its expires_at.
C12_ExpiredHoldNotConsumed ==
    [][/\ now' >= now
       /\ \A h \in DOMAIN holds \cap DOMAIN holds' :
             /\ holds'[h].expires_at = holds[h].expires_at
             /\ (holds'[h].consumed /\ ~holds[h].consumed)
                => \E w \in Workers : /\ pc[w] = "consume_commit"
                                      /\ loc[w].hold = h
                                      /\ loc[w].now < holds[h].expires_at
       /\ \A w \in Workers :
             /\ (pc[w] = "consume_hold" /\ pc'[w] # "consume_hold"
                    /\ loc[w].op = "consume_hold")
                => loc'[w].now = now
             /\ (/\ ConsumeQueries(w)
                 /\ loc[w].op = "consume_hold"
                 /\ loc[w].hold \in DOMAIN holds
                 /\ holds[loc[w].hold].expires_at <= loc[w].now)
                => /\ pc'[w] = "done"
                   /\ res'[w].op = "consume_hold"
                   /\ res'[w].ok = FALSE
                   /\ holds' = holds]_vars

\* C12 witness: consume_hold was answered False for a hold created with
\* ttl = 0 at time 0, which is still in the store, unconsumed.
C12_Witness ==
    \E w \in Workers :
        /\ Answered(w, "consume_hold")
        /\ ~res[w].ok
        /\ res[w].hold \in DOMAIN holds
        /\ holds[res[w].hold].expires_at = 0
        /\ ~holds[res[w].hold].consumed

TicketsOf(rows, b) == {t \in DOMAIN rows : rows[t].booking_id = b}

\* C13: in every state every committed booking has exactly pax_count ticket
\* rows.
C13_PaxCountEqualsTickets ==
    \A b \in DOMAIN bookings :
        bookings[b].pax_count = Cardinality(TicketsOf(tickets, b))

\* C13 witness: a booking of two passengers is in the store with its two
\* tickets.
C13_Witness ==
    \E b \in DOMAIN bookings :
        /\ bookings[b].pax_count = 2
        /\ Cardinality(TicketsOf(tickets, b)) = 2

\* C14: the commit of a create_booking answered 201 for N passengers adds a
\* new booking with pax_count = N (1 <= N <= 20) and exactly N new tickets of
\* that booking; each ticket's token verifies at that time and carries the
\* ticket's booking and passenger, and the N tokens differ from each other.
C14_TicketsIssuedPerPassenger ==
    [][\A w \in Workers :
          (pc[w] = "booking_flush" /\ pc'[w] = "done" /\ res'[w].status = 201)
          => LET b == res'[w].value
                 n == Len(loc[w].names)
                 mine == TicketsOf(tickets', b)
             IN  /\ n \in 1..20
                 /\ b \notin DOMAIN bookings
                 /\ b \in DOMAIN bookings'
                 /\ bookings'[b].pax_count = n
                 /\ TicketsOf(tickets, b) = {}
                 /\ Cardinality(mine) = n
                 /\ \A t \in mine :
                       LET v == verify_qr_token(tickets'[t].qr_token, now)
                       IN  /\ v.ok
                           /\ v.data.booking_id = b
                           /\ v.data.passenger = tickets'[t].passenger_name
                 /\ \A t1, t2 \in mine :
                       t1 # t2 => tickets'[t1].qr_token # tickets'[t2].qr_token]_vars

\* C14 witness: create_booking was answered 201 for two passengers of the
\* same normalised name, whose two tickets carry different tokens.
C14_Witness ==
    \E w \in Workers :
        /\ Answered(w, "create_booking")
        /\ res[w].status = 201
        /\ \E t1, t2 \in TicketsOf(tickets, res[w].value) :
              /\ t1 # t2
              /\ tickets[t1].passenger_name = tickets[t2].passenger_name
              /\ tickets[t1].qr_token # tickets[t2].qr_token

\* Worker w takes a scan of the token in this step.
ScanCalled(w, token) ==
    /\ pc[w] = "idle"
    /\ \/ pc'[w] = "done" /\ res'[w].op = "scan_ticket"
                          /\ res'[w].token = token
       \/ pc'[w] = "scan_update" /\ loc'[w].token = token

\* The token is no JWT, or its signature is not the service's over its
\* payload, or its exp lies before t.
BadCredential(token, t) ==
    \/ token.segments # 3
    \/ token.sig.key # "private"
    \/ token.sig.over # token.payload
    \/ token.payload.exp < t

VerificationErrors ==
    {"Not enough segments", "Signature verification failed.",
     "Signature has expired."}

\* C15: a scan of a credential that fails verification (malformed, bad
\* signature, expired) is answered in that step with a decision valid=false
\* that carries the verification error as its reason, not with an error
\* status, and changes no ticket.
C15_BadCredentialIsDeclined ==
    [][\A w \in Workers, token \in PresentableTokens :
          (ScanCalled(w, token) /\ BadCredential(token, now))
          => /\ pc'[w] = "done"
             /\ res'[w].status = 200
             /\ res'[w].ok = FALSE
             /\ res'[w].reason \in VerificationErrors
             /\ tickets' = tickets]_vars

\* C15 witness: with an unused ticket in the store, one scan was declined
\* for its signature and one because its token had expired.
C15_Witness ==
    \E w1, w2 \in Workers :
        /\ Answered(w1, "scan_ticket")
        /\ Answered(w2, "scan_ticket")
        /\ res[w1].reason = "Signature verification failed."
        /\ res[w2].reason = "Signature has expired."
        /\ ~res[w1].ok
        /\ ~res[w2].ok
        /\ \E t \in DOMAIN tickets : ~tickets[t].used

\* C16: a scan of a credential that verifies and whose (booking_id,
\* passenger) no ticket row has is answered in that step valid=false with the
\* reason "Ticket not found for booking", and changes no ticket.
C16_UnknownTicketIsDeclined ==
    [][\A w \in Workers, token \in PresentableTokens :
          (/\ ScanCalled(w, token)
           /\ ~BadCredential(token, now)
           /\ \A t \in DOMAIN tickets :
                 \/ tickets[t].booking_id # token.payload.booking_id
                 \/ tickets[t].passenger_name # token.payload.passenger)
          => /\ pc'[w] = "done"
             /\ res'[w].status = 200
             /\ res'[w].ok = FALSE
             /\ res'[w].reason = "Ticket not found for booking"
             /\ res'[w].ticket = NoTicket
             /\ tickets' = tickets]_vars

\* C16 witness: beside an unused ticket in the store, a scan was answered
\* that no ticket was found.
C16_Witness ==
    \E w \in Workers :
        /\ Answered(w, "scan_ticket")
        /\ res[w].reason = "Ticket not found for booking"
        /\ ~res[w].ok
        /\ \E t \in DOMAIN tickets : ~tickets[t].used

\* C17: a create_booking call either is answered at once, with 404 and the
\* store as it was (no hold, no booking, no ticket added), or goes on with a
\* schedule that exists.
C17_UnknownSailingIs404 ==
    [][\A w \in Workers :
          /\ (pc[w] = "idle" /\ pc'[w] = "done"
                /\ res'[w].op = "create_booking")
             => /\ res'[w].status = 404
                /\ holds' = holds
                /\ bookings' = bookings
                /\ tickets' = tickets
          /\ (pc[w] = "idle" /\ pc'[w] # "idle"
                /\ loc'[w].op = "create_booking")
             => loc'[w].sid \in DOMAIN schedules]_vars

\* C17 witness: create_booking was answered 404 and the store is empty.
C17_Witness ==
    \E w \in Workers :
        /\ Answered(w, "create_booking")
        /\ res[w].status = 404
        /\ DOMAIN holds = {}
        /\ DOMAIN bookings = {}
        /\ DOMAIN tickets = {}

\* C18: when the query of create_booking's consume_hold finds no row, the
\* request never reaches the booking: it ends in that step, with 409 (or with
\* the worker's death), and no booking or ticket is added.
C18_FailedHoldIs409 ==
    [][\A w \in Workers :
          (/\ ConsumeQueries(w)
           /\ loc[w].op = "create_booking"
           /\ ~(/\ loc[w].hold \in DOMAIN holds
                /\ ~holds[loc[w].hold].consumed
                /\ holds[loc[w].hold].expires_at > loc[w].now))
          => /\ pc'[w] = "done"
             /\ res'[w].op = "create_booking"
             /\ \/ res'[w].status = 409
                \/ res'[w].reason = "Internal server error"
             /\ bookings' = bookings
             /\ tickets' = tickets]_vars

\* C18 witness: create_booking was answered 409; its hold is in the store,
\* unconsumed, and there is no booking or ticket of the request.
C18_Witness ==
    \E w \in Workers :
        /\ Answered(w, "create_booking")
        /\ res[w].status = 409
        /\ res[w].hold \in DOMAIN holds
        /\ ~holds[res[w].hold].consumed
        /\ res[w].hold \notin DOMAIN bookings
        /\ TicketsOf(tickets, res[w].hold) = {}

\* A token whose signature bytes were altered.
AlteredSignature(token) == [token EXCEPT !.sig.key = "altered"]

\* C19: for every token create_booking signed, at every time: up to the
\* token's exp verify returns the booking_id and passenger it was signed
\* for; after it verify fails with "Signature has expired."; with an altered
\* signature verify fails with "Signature verification failed.".
C19_TokenRoundTrip ==
    \A t \in DOMAIN tickets :
        LET token == tickets[t].qr_token
            v == verify_qr_token(token, now)
            a == verify_qr_token(AlteredSignature(token), now)
        IN  /\ now <= token.payload.exp
               => /\ v.ok
                  /\ v.data.booking_id = tickets[t].booking_id
                  /\ v.data.passenger = tickets[t].passenger_name
            /\ now > token.payload.exp
               => ~v.ok /\ v.error = "Signature has expired."
            /\ ~a.ok
            /\ a.error = "Signature verification failed."

\* C19 witness: a token that create_booking issued was presented after its
\* exp and declined as expired.
C19_Witness ==
    \E w \in Workers :
        /\ Answered(w, "scan_ticket")
        /\ res[w].token \in IssuedTokens
        /\ now > res[w].token.payload.exp
        /\ res[w].reason = "Signature has expired."

\* C20: no two bookings have the same booking_reference, and no step changes
\* the booking_reference of a booking or removes a booking.
C20_ReferenceUniqueAndFixed ==
    [][/\ \A b1, b2 \in DOMAIN bookings' :
             b1 # b2 => bookings'[b1].booking_reference
                          # bookings'[b2].booking_reference
       /\ \A b \in DOMAIN bookings :
             /\ b \in DOMAIN bookings'
             /\ bookings'[b].booking_reference
                  = bookings[b].booking_reference]_vars

\* C20 witness: a booking is in the store, and another create_booking drew
\* its reference and was refused by the unique index.
C20_Witness ==
    /\ Cardinality(DOMAIN bookings) >= 1
    /\ \E w \in Workers :
          /\ Answered(w, "create_booking")
          /\ res[w].reason = "IntegrityError"

\* C21: create_booking draws its booking reference once, so a request that
\* is refused by the unique index has failed on a single collision; the
\* claim says a single collision is retried and does not fail the booking:
\* no create_booking is answered with the index's IntegrityError while a free
\* reference is left to draw.
C21_CollisionIsRetried ==
    \A w \in Workers :
        (Answered(w, "create_booking") /\ Refs \ BookingRefs # {})
        => res[w].reason # "IntegrityError"

\* Worker w's consume_hold (called directly or by create_booking) returns
\* False in this step.
ConsumeReturnsFalse(w) ==
    /\ pc[w] \in {"consume_hold", "consume_select", "consume_commit"}
    /\ pc'[w] = "done"
    /\ \/ res'[w].op = "consume_hold" /\ ~res'[w].ok /\ res'[w].status = 0
       \/ res'[w].op = "create_booking" /\ res'[w].status = 409

\* C22: the step in which a consume_hold returns False is its query; it
\* leaves the holds table as it was (no flag, no expiry changed, no hold
\* created or deleted), and so do the steps of the call before it.
C22_FailedConsumeChangesNothing ==
    [][\A w \in Workers :
          /\ ConsumeReturnsFalse(w)
             => /\ pc[w] = "consume_select"
                /\ holds' = holds
                /\ next_hold' = next_hold
          /\ (/\ \/ pc[w] = "idle" /\ pc'[w] = "consume_hold"
                 \/ pc[w] = "consume_hold" /\ pc'[w] = "consume_select"
              /\ loc'[w].op = "consume_hold")
             => holds' = holds /\ next_hold' = next_hold]_vars

\* C22 witness: consume_hold was answered False for an expired hold, which
\* is in the store as create_hold left it.
C22_Witness ==
    \E w \in Workers :
        /\ Answered(w, "consume_hold")
        /\ ~res[w].ok
        /\ res[w].status = 0
        /\ res[w].hold \in DOMAIN holds
        /\ ~holds[res[w].hold].consumed
        /\ holds[res[w].hold].expires_at = DEFAULT_HOLD_MINUTES
        /\ now >= DEFAULT_HOLD_MINUTES

\* C23: no step takes a hold's consumed flag from true back to false.
C23_ConsumedIsMonotonic ==
    [][\A h \in DOMAIN holds \cap DOMAIN holds' :
          holds[h].consumed => holds'[h].consumed]_vars

\* C23 witness: a hold that consume_hold consumed is past its expiry, a
\* sweep has run since, and the hold is in the store, consumed.
C23_Witness ==
    \E w \in Workers, h \in known_holds \cap DOMAIN holds :
        /\ holds[h].consumed
        /\ holds[h].expires_at <= now
        /\ Answered(w, "release_expired_holds")
        /\ res[w].value = 0

\* The holds a sweep that read the clock at t has to delete.
Reapable(t) ==
    {h \in DOMAIN holds : holds[h].expires_at <= t /\ ~holds[h].consumed}

\* Worker w's sweep commits in this step, no other worker is inside a
\* handler, and the holds table is as the sweep's query saw it.
SweepCommitsAlone(w) ==
    /\ pc[w] = "release_commit"
    /\ pc'[w] = "done"
    /\ \A o \in Workers \ {w} : pc[o] \in {"idle", "done"}
    /\ loc[w].sel = Reapable(loc[w].now)

\* C24: a sweep reads the clock when it is called and its query loads
\* exactly the holds with expires_at <= that time and consumed = false; run
\* alone, its commit deletes exactly those, returns their number and leaves
\* every other hold as it was.
C24_SweepDeletesExpiredUnconsumed ==
    [][\A w \in Workers :
          /\ (pc[w] = "idle" /\ pc'[w] = "release_select")
             => loc'[w].now = now /\ holds' = holds
          /\ (pc[w] = "release_select" /\ pc'[w] = "release_commit")
             => loc'[w].sel = Reapable(loc[w].now) /\ holds' = holds
          /\ SweepCommitsAlone(w)
             => /\ DOMAIN holds' = DOMAIN holds \ Reapable(loc[w].now)
                /\ res'[w].value = Cardinality(Reapable(loc[w].now))
                /\ res'[w].value
                     = Cardinality(DOMAIN holds) - Cardinality(DOMAIN holds')
                /\ \A h \in DOMAIN holds' : holds'[h] = holds[h]]_vars

\* C24 witness: a sweep was answered 1 and a consumed hold is still in the
\* store.
C24_Witness ==
    \E w \in Workers, h \in DOMAIN holds :
        /\ Answered(w, "release_expired_holds")
        /\ res[w].value = 1
        /\ holds[h].consumed

\* C25: after a sweep that ran alone no hold is left that a sweep reading
\* the same clock would delete; a sweep whose query loads nothing deletes
\* nothing, returns 0 and leaves the store as it was.
C25_SweepIsIdempotent ==
    [][\A w \in Workers :
          /\ SweepCommitsAlone(w)
             => \A h \in DOMAIN holds' :
                   ~(holds'[h].expires_at <= loc[w].now /\ ~holds'[h].consumed)
          /\ (/\ pc[w] = "release_select"
              /\ pc'[w] # "release_select"
              /\ Reapable(loc[w].now) = {})
             => pc'[w] = "release_commit" /\ loc'[w].sel = {}
          /\ (/\ pc[w] = "release_commit"
              /\ pc'[w] # "release_commit"
              /\ loc[w].sel = {})
             => /\ pc'[w] = "done"
                /\ res'[w].value = 0
                /\ holds' = holds
                /\ bookings' = bookings
                /\ tickets' = tickets
                /\ payment_events' = payment_events]_vars

\* C25 witness: a sweep was answered 1 and the sweep after it 0, and the
\* store holds no hold.
C25_Witness ==
    \E w1, w2 \in Workers :
        /\ Answered(w1, "release_expired_holds")
        /\ Answered(w2, "release_expired_holds")
        /\ res[w1].value = 1
        /\ res[w2].value = 0
        /\ next_hold > 1
        /\ DOMAIN holds = {}

\* C26: a call of create_hold is answered with one new hold in the same
\* step, whatever the store holds: the hold is unconsumed, it expires ttl
\* after the call (ttl is 0 or the default; create_booking always asks
\* for the default of 10 minutes), and every hold, booking and ticket that
\* was in the store is in it unchanged.
C26_CreateHoldAlwaysSucceeds ==
    [][\A w \in Workers :
          /\ (pc[w] = "idle" /\ pc'[w] = "done" /\ res'[w].op = "create_hold")
             => LET h == res'[w].hold
                IN  /\ h \notin DOMAIN holds
                    /\ DOMAIN holds' = DOMAIN holds \cup {h}
                    /\ ~holds'[h].consumed
                    /\ holds'[h].expires_at - now \in {0, 10}
                    /\ \A g \in DOMAIN holds : holds'[g] = holds[g]
                    /\ bookings' = bookings
                    /\ tickets' = tickets
          /\ (pc[w] = "idle" /\ pc'[w] = "consume_hold"
                             /\ loc'[w].op = "create_booking")
             => LET h == loc'[w].hold
                IN  /\ h \notin DOMAIN holds
                    /\ DOMAIN holds' = DOMAIN holds \cup {h}
                    /\ ~holds'[h].consumed
                    /\ holds'[h].expires_at = now + 10
                    /\ holds'[h].pax_count = Len(loc'[w].names)
                    /\ \A g \in DOMAIN holds : holds'[g] = holds[g]
                    /\ bookings' = bookings
                    /\ tickets' = tickets]_vars

\* C26 witness: create_hold was answered with a new hold for a sailing that
\* has no seat left, while another hold is in the store.
C26_Witness ==
    \E w \in Workers :
        /\ Answered(w, "create_hold")
        /\ available_capacity("s1") <= 0
        /\ res[w].hold \in DOMAIN holds
        /\ ~holds[res[w].hold].consumed
        /\ Cardinality(DOMAIN holds) = 2

\* C28: a delivery of a success event that was not recorded when it
\* arrived and that names an existing booking is answered with the event
\* recorded and the booking confirmed.
C28_SuccessEventConfirms ==
    \A w \in Workers :
        (/\ Answered(w, "stripe_webhook")
         /\ res[w].event.id # None
         /\ res[w].reason # "already processed"
         /\ res[w].event.type \in SuccessTypes
         /\ res[w].event.booking_id \in DOMAIN bookings)
        => /\ Cardinality(RecordsOf(payment_events, res[w].event.id)) = 1
           /\ bookings[res[w].event.booking_id].status = "confirmed"

\* C29: the step that answers a delivery of an event that is no success
\* signal and was not recorded when it arrived leaves the event recorded
\* once and every booking's status as it was.
C29_OtherEventIsRecordedOnly ==
    [][\A w \in Workers :
          (/\ pc[w] # "done"
           /\ pc'[w] = "done"
           /\ res'[w].op = "stripe_webhook"
           /\ res'[w].event.id # None
           /\ res'[w].reason # "already processed"
           /\ res'[w].event.type \notin SuccessTypes)
          => /\ Cardinality(RecordsOf(payment_events', res'[w].event.id)) = 1
             /\ \A b \in DOMAIN bookings :
                   bookings'[b].status = bookings[b].status]_vars

\* C30: the decision of a scan whose lookup found ticket t names t and
\* t's booking.  The pre-check answers valid=false, "Ticket already used"
\* when t is used; the update answers valid=true when it marks t used and
\* valid=false, "Ticket already used" when it matches no row.
C30_FoundTicketIsNamed ==
    [][\A w \in Workers :
          /\ (/\ pc[w] = "idle"
              /\ pc'[w] = "done"
              /\ res'[w].op = "scan_ticket"
              /\ verify_qr_token(res'[w].token, now).ok
              /\ \E t \in DOMAIN tickets :
                    /\ tickets[t].booking_id
                         = verify_qr_token(res'[w].token, now).data.booking_id
                    /\ tickets[t].passenger_name
                         = verify_qr_token(res'[w].token, now).data.passenger)
             => /\ ~res'[w].ok
                /\ res'[w].reason = "Ticket already used"
                /\ res'[w].ticket \in DOMAIN tickets
                /\ tickets[res'[w].ticket].used
                /\ tickets[res'[w].ticket].qr_token.payload
                     = res'[w].token.payload
                /\ res'[w].value = tickets[res'[w].ticket].booking_id
          /\ (pc[w] = "scan_update" /\ pc'[w] # "scan_update")
             => /\ pc'[w] = "done"
                /\ res'[w].ticket = loc[w].ticket
                /\ res'[w].value = tickets[loc[w].ticket].booking_id
                /\ IF tickets[loc[w].ticket].used
                   THEN /\ ~res'[w].ok
                        /\ res'[w].reason = "Ticket already used"
                        /\ tickets' = tickets
                   ELSE /\ res'[w].ok
                        /\ tickets'[loc[w].ticket].used]_vars

\* C30 witness: two scans of one ticket were answered in the minute the
\* ticket was marked used, one valid, the other "Ticket already used" with
\* the ticket's id and booking id.
C30_Witness ==
    \E w1, w2 \in Workers :
        /\ w1 # w2
        /\ Answered(w1, "scan_ticket")
        /\ Answered(w2, "scan_ticket")
        /\ res[w1].ok
        /\ ~res[w2].ok
        /\ res[w2].reason = "Ticket already used"
        /\ res[w1].ticket = res[w2].ticket
        /\ res[w2].ticket \in DOMAIN tickets
        /\ res[w2].value = tickets[res[w2].ticket].booking_id
        /\ tickets[res[w2].ticket].used_at = now
        /\ calls = 3

\* Hold h is in the store, unconsumed, and its expiry has passed.
ExpiredUnconsumed(h) ==
    /\ h \in DOMAIN holds
    /\ ~holds[h].consumed
    /\ holds[h].expires_at <= now

\* A consume_hold of h has read the clock and not yet answered.
ConsumeInFlight(h) ==
    \E w \in Workers : /\ pc[w] \in {"consume_select", "consume_commit"}
                        /\ loc[w].hold = h

C31_BookingIsCreatedConfirmed ==
    /\ [](\A b \in DOMAIN bookings : bookings[b].status = "confirmed")
    /\ [][\A w \in Workers :
             (pc[w] = "booking_flush" /\ pc'[w] = "done"
                                     /\ res'[w].status = 201)
             => LET b == res'[w].value
                IN  /\ DOMAIN bookings' = DOMAIN bookings \cup {b}
                    /\ b \notin DOMAIN bookings
                    /\ bookings'[b].status = "confirmed"
                    /\ bookings'[b].pax_count = Len(loc[w].names)
                    /\ bookings'[b].schedule_id = loc[w].sid]_vars

\* C31 witness: create_booking was answered 201 for two passengers and its
\* booking is in the store, confirmed.
C31_Witness ==
    \E w \in Workers :
        /\ Answered(w, "create_booking")
        /\ res[w].status = 201
        /\ bookings[res[w].value].pax_count = 2
        /\ bookings[res[w].value].status = "confirmed"

\* C32: a booking of two passengers and one scan of each of its two tokens
\* are the only requests made, and the tokens have not expired: both scans
\* are answered valid=true and both tickets are used.
C32_EachTokenRedeemsOnce ==
    \A w1, w2 \in Workers :
        (/\ w1 # w2
         /\ Answered(w1, "scan_ticket")
         /\ Answered(w2, "scan_ticket")
         /\ calls = 3
         /\ res[w1].token \in IssuedTokens
         /\ res[w2].token \in IssuedTokens
         /\ res[w1].token # res[w2].token
         /\ verify_qr_token(res[w1].token, now).ok
         /\ verify_qr_token(res[w2].token, now).ok)
        => /\ res[w1].ok
           /\ res[w2].ok
           /\ \A t \in DOMAIN tickets : tickets[t].used

\* Worker w's create_booking is answered 409 in this step.
BookingConflicts(w) ==
    /\ loc[w].op = "create_booking"
    /\ pc[w] # "done"
    /\ pc'[w] = "done"
    /\ res'[w].status = 409

\* The hold h belongs to a create_booking that has not consumed it yet.
OwnHoldOf(w, h) ==
    /\ loc[w].op = "create_booking"
    /\ pc[w] \in {"consume_hold", "consume_select"}
    /\ loc[w].hold = h

\* C33: the hold of a create_booking is known to no other request.  The
\* request is answered 409 only by its consume_hold's query, and then the
\* hold is in the store unconsumed with its expiry at or before the clock
\* the query was built with, or was deleted; it is deleted only when its
\* expiry has passed.  So the hold's 10 minutes have elapsed by then.
C33_ConflictOnlyAfterExpiry ==
    [][\A w \in Workers :
          /\ \A h \in DOMAIN holds :
                OwnHoldOf(w, h)
                => /\ h \notin known_holds
                   /\ \A o \in Workers \ {w} : loc[o].hold # h
                   /\ ~holds[h].consumed
                   /\ h \notin DOMAIN holds' => holds[h].expires_at <= now
          /\ BookingConflicts(w)
             => /\ pc[w] = "consume_select"
                /\ loc[w].now <= now
                /\ loc[w].hold \in DOMAIN holds
                   => /\ ~holds[loc[w].hold].consumed
                      /\ holds[loc[w].hold].expires_at <= loc[w].now
                /\ loc[w].hold \notin DOMAIN holds
                   => now >= DEFAULT_HOLD_MINUTES]_vars

\* C33 witness: a create_booking was answered 409; its hold is in the store,
\* unconsumed and expired.
C33_Witness ==
    \E w \in Workers :
        /\ Answered(w, "create_booking")
        /\ res[w].status = 409
        /\ res[w].hold \in DOMAIN holds
        /\ ~holds[res[w].hold].consumed
        /\ holds[res[w].hold].expires_at <= now

\* C34: the update of a scan answered valid=true changes one ticket: the
\* ticket carries the booking id and the passenger name of the token's
\* claims, it was unused and is now used with used_at set; every other
\* ticket, every booking and every hold is as it was.
C34_ValidScanChangesOneTicket ==
    [][\A w \in Workers :
          (pc[w] = "scan_update" /\ pc'[w] = "done" /\ res'[w].ok)
          => LET t == res'[w].ticket
                 claims == res'[w].token.payload
             IN  /\ t \in DOMAIN tickets
                 /\ tickets[t].booking_id = claims.booking_id
                 /\ tickets[t].passenger_name = claims.passenger
                 /\ ~tickets[t].used
                 /\ tickets'[t].used
                 /\ tickets'[t].used_at = now
                 /\ tickets'[t].used_at # NoTime
                 /\ tickets'[t].booking_id = tickets[t].booking_id
                 /\ tickets'[t].passenger_name = tickets[t].passenger_name
                 /\ tickets'[t].qr_token = tickets[t].qr_token
                 /\ DOMAIN tickets' = DOMAIN tickets
                 /\ \A x \in DOMAIN tickets \ {t} : tickets'[x] = tickets[x]
                 /\ bookings' = bookings
                 /\ holds' = holds]_vars

\* C34 witness: a scan was answered valid=true; the other ticket of its
\* booking and the ticket of another booking are unused.
C34_Witness ==
    \E w \in Workers, x, y \in DOMAIN tickets :
        /\ Answered(w, "scan_ticket")
        /\ res[w].ok
        /\ tickets[res[w].ticket].used
        /\ x # res[w].ticket
        /\ tickets[x].booking_id = tickets[res[w].ticket].booking_id
        /\ ~tickets[x].used
        /\ tickets[y].booking_id # tickets[res[w].ticket].booking_id
        /\ ~tickets[y].used

\* C35: in every state a ticket's used_at is set exactly when the ticket is
\* used.
C35_UsedAtIffUsed ==
    \A t \in DOMAIN tickets : tickets[t].used <=> tickets[t].used_at # NoTime

\* C35 witness: a ticket is used, with the time of its scan, beside a ticket
\* that is unused and has none.
C35_Witness ==
    \E t, x \in DOMAIN tickets :
        /\ tickets[t].used
        /\ tickets[t].used_at = now
        /\ ~tickets[x].used
        /\ tickets[x].used_at = NoTime

C37_MissingIdIsRejected ==
    [][\A w \in Workers :
          (/\ pc[w] = "idle"
           /\ pc'[w] # "idle"
           /\ \/ pc'[w] = "done" /\ res'[w].op = "stripe_webhook"
                                  /\ res'[w].event.id = None
              \/ pc'[w] # "done" /\ loc'[w].op = "stripe_webhook"
                                  /\ loc'[w].event.id = None)
          => /\ pc'[w] = "done"
             /\ res'[w].status = 400
             /\ payment_events' = payment_events
             /\ bookings' = bookings]_vars

\* Worker w's stripe_webhook takes a step, for event e.
WebhookSteps(w, e) ==
    /\ pc'[w] # pc[w]
    /\ \/ /\ pc[w] = "idle"
          /\ \/ pc'[w] = "done" /\ res'[w].op = "stripe_webhook"
                                 /\ res'[w].event = e
             \/ pc'[w] # "done" /\ loc'[w].op = "stripe_webhook"
                                 /\ loc'[w].event = e
       \/ /\ pc[w] \in {"webhook_booking", "webhook_commit"}
          /\ loc[w].event = e

\* C38: no step of stripe_webhook changes a ticket or a hold, adds or
\* removes a booking, or changes a booking other than in the status of the
\* booking the event names.
C38_WebhookWritesOnlyStatus ==
    [][\A w \in Workers, e \in Events :
          WebhookSteps(w, e)
          => /\ tickets' = tickets
             /\ holds' = holds
             /\ DOMAIN bookings' = DOMAIN bookings
             /\ \A b \in DOMAIN bookings :
                   /\ bookings'[b].pax_count = bookings[b].pax_count
                   /\ bookings'[b].schedule_id = bookings[b].schedule_id
                   /\ bookings'[b].booking_reference
                        = bookings[b].booking_reference
                   /\ bookings'[b].status # bookings[b].status
                      => b = e.booking_id]_vars

\* C38 witness: a success event naming booking 1 was recorded; the booking
\* is confirmed, its hold and its ticket are as they were.
C38_Witness ==
    \E w \in Workers :
        /\ Answered(w, "stripe_webhook")
        /\ res[w].reason = "recorded"
        /\ res[w].event.booking_id = 1
        /\ res[w].event.type \in SuccessTypes
        /\ bookings[1].status = "confirmed"
        /\ bookings[1].pax_count = 1
        /\ 1 \in DOMAIN holds
        /\ ~tickets[<<1, 1>>].used

\* Worker w is inside create_booking.
InCreateBooking(w) ==
    loc[w].op = "create_booking" /\ pc[w] \notin {"idle", "done"}

\* C39: a create_booking that is under way is eventually answered; an
\* answer is 201 with the id of a booking in the store, or 404, 409 or 500
\* with none; the hold its consume_hold waits for is locked by no other
\* request.
C39_CreateBookingTerminates ==
    /\ \A w \in Workers :
          InCreateBooking(w) ~> Answered(w, "create_booking")
    /\ [](\A w \in Workers :
            /\ Answered(w, "create_booking")
               => /\ res[w].status \in {201, 404, 409, 500}
                  /\ res[w].status = 201 <=> res[w].value \in DOMAIN bookings
                  /\ res[w].status # 201 => res[w].value = 0
            /\ InCreateBooking(w) => ~HoldLocked(w, loc[w].hold))

\* C39 witness: two create_booking requests ran together on PostgreSQL; one
\* was answered 201 and the other 409.
C39_Witness ==
    \E w1, w2 \in Workers :
        /\ backend = "postgresql"
        /\ Answered(w1, "create_booking")
        /\ Answered(w2, "create_booking")
        /\ res[w1].status = 201
        /\ res[w2].status = 409
        /\ res[w2].prior = res[w1].prior

====
